---- MODULE Spec2Model ----
(***************************************************************************)
(* A model of the swipe-alpha analytics pipeline: the metrics calculator   *)
(* (utils/analytics.py), the Monte Carlo simulator (core/monte_carlo.py),  *)
(* the alpha classifier wrapper (core/alpha_model.py), the API client's    *)
(* action methods (api/client.py) and the application's data collection    *)
(* (main.py).  Each component has its own specification over the shared    *)
(* variables; the variables of the other components stay idle.             *)
(***************************************************************************)
EXTENDS Integers, Sequences, FiniteSets, TLC

VARIABLES
    swipes,      \* DatingMetricsCalculator.swipes  : a table
    matches,     \* DatingMetricsCalculator.matches : a table
    mres,        \* outcome of the last metrics call: [op, status, value]
    simData,     \* DatingMonteCarlo.data: the historical outcomes
    simPc,       \* where the simulator's running method stands
    simN,        \* n_simulations of the running simulate_conversation_outcomes
    simProbs,    \* reply_prob, date_prob, ghost_prob of that call
    results,     \* the trial rows appended so far by that call
    simDraws,    \* random draws made by the latest trial
    strategies,  \* the list handed to optimize_message_strategy
    sIdx,        \* index of the strategy being simulated
    reply_prob,  \* its adjusted reply probability (before the cap)
    usedProb,    \* the probability its latest reply draw was made with
    stratCount,  \* rows appended for this strategy so far
    stratLast,   \* the latest of them (a list of at most one row)
    simErr,      \* the exception the running method raised, or "none"
    simulation_results,  \* DatingMonteCarlo.simulation_results
    amData,      \* AlphaSignalModel.data: its columns and number of rows
    amModel,     \* AlphaSignalModel.model: "None" or "pipeline"
    amTrainCalled,  \* whether train_model has been called on it
    profiles,    \* the table handed to predict_alpha
    amRes,       \* outcome of the last classifier call: [op, status]
    amCalls,     \* every [op, status] a classifier call has ended with
    liked,       \* session: the users liked so far
    sent,        \* session: the match ids messaged so far, in order
    cRes,        \* the last TinderClient call and what it did
    appClient,   \* SwipeAlpha.client: "None" or "client"
    history,     \* session: the list get_match_history returns
    appData,     \* SwipeAlpha.data: None, or the users and matches tables
    appRes,      \* outcome of the last SwipeAlpha call: [op, status]
    appPortfolio,   \* SwipeAlpha.portfolio: "None" or "portfolio"
    appAlphaModel,  \* SwipeAlpha.alpha_model, and whether it is trained
    stageDf,     \* columns of the local table of the last stage, at its end
    appCompleted,   \* the methods that have returned normally
    runPc,       \* the step run stands at; "none" outside run
    runLog,      \* the steps run has executed, and how each ended
    runOut,      \* what run printed, caught or let through
    prMatches,   \* the table handed to evaluate_portfolio
    prPc,        \* where evaluate_portfolio stands
    prIdx,       \* index of the row its loop is at
    prResults,   \* the rows appended so far
    prCall,      \* the latest price_match_options call and what it returned
    genPc,       \* where _generate_swipe_history stands
    genDays,     \* its argument
    genStart,    \* the weekday and hour its history starts at
    genI,        \* the loop index
    genHistory   \* the records appended so far

metricsVars == <<swipes, matches, mres>>

simVars == <<simData, simPc, simN, simProbs, results, simDraws, strategies,
             sIdx, reply_prob, usedProb, stratCount, stratLast, simErr,
             simulation_results>>

alphaVars == <<amData, amModel, amTrainCalled, profiles, amRes, amCalls>>

clientVars == <<liked, sent, cRes>>

appVars == <<appClient, history, appData, appRes, appPortfolio, appAlphaModel,
             stageDf, appCompleted, runPc, runLog, runOut>>

pricingVars == <<prMatches, prPc, prIdx, prResults, prCall>>

fetcherVars == <<genPc, genDays, genStart, genI, genHistory>>

\* What each component's operations leave alone.
OutsideMetrics == <<simVars, alphaVars, clientVars, appVars, pricingVars,
    fetcherVars>>

OutsideSim == <<metricsVars, alphaVars, clientVars, appVars, pricingVars,
    fetcherVars>>

OutsideAlpha == <<metricsVars, simVars, clientVars, appVars, pricingVars,
    fetcherVars>>

OutsideClient == <<metricsVars, simVars, alphaVars, appVars, pricingVars,
    fetcherVars>>

OutsideApp == <<metricsVars, simVars, alphaVars, clientVars, pricingVars,
    fetcherVars>>

OutsidePricing == <<metricsVars, simVars, alphaVars, clientVars, appVars,
    fetcherVars>>

OutsideFetcher == <<metricsVars, simVars, alphaVars, clientVars, appVars,
    pricingVars>>

-----------------------------------------------------------------------------
(* Bounds of the model.                                                    *)

MaxSwipes == 2
MaxMatches == 2
MaxHistory == 2       \* rows of the simulator's historical data
MaxSimulations == 3   \* largest n_simulations tried
MaxRows == 2          \* rows of the classifier's training table
MaxSent == 2          \* messages the session accepts
MaxUsers == 2         \* nearby users the session returns
MaxDays == 2          \* days of swipe history generated

-----------------------------------------------------------------------------
(* Numbers.  A Python float/int is a normalised fraction [n, d]; d = 0 is  *)
(* NaN (the mean of nothing, or a missing value).                          *)

Abs(x) == IF x < 0 THEN -x ELSE x

RECURSIVE GCD(_, _)
GCD(a, b) == IF b = 0 THEN a ELSE GCD(b, a % b)

NaN == [n |-> 0, d |-> 0]

Rat(n, d) ==
    IF d = 0 THEN NaN
    ELSE LET g == GCD(Abs(n), Abs(d))
             s == IF d < 0 THEN -1 ELSE 1
         IN  [n |-> (s * n) \div g, d |-> (s * d) \div g]

Num(k) == Rat(k, 1)

IsNaN(a) == a.d = 0

RatAdd(a, b) == IF IsNaN(a) \/ IsNaN(b) THEN NaN
                ELSE Rat(a.n * b.d + b.n * a.d, a.d * b.d)

RatMul(a, b) == IF IsNaN(a) \/ IsNaN(b) THEN NaN
                ELSE Rat(a.n * b.n, a.d * b.d)

\* Python's a < b on floats: every comparison with NaN is False.
RatLt(a, b) == ~IsNaN(a) /\ ~IsNaN(b) /\ a.n * b.d < b.n * a.d

RatLe(a, b) == ~IsNaN(a) /\ ~IsNaN(b) /\ a.n * b.d <= b.n * a.d

RECURSIVE SumSeq(_)
SumSeq(s) == IF s = <<>> THEN Num(0) ELSE RatAdd(s[1], SumSeq(Tail(s)))

\* pandas Series.mean / np.mean: NaN for an empty series.
Mean(s) == IF s = <<>> THEN NaN ELSE RatMul(SumSeq(s), Rat(1, Len(s)))

\* np.median of a non-empty list.
Median(s) ==
    LET srt == SortSeq(s, RatLt)
        k == Len(s)
    IN  IF k % 2 = 1 THEN srt[(k + 1) \div 2]
        ELSE RatMul(RatAdd(srt[k \div 2], srt[k \div 2 + 1]), Rat(1, 2))

RECURSIVE SeqMap(_, _)
SeqMap(F(_), s) == IF s = <<>> THEN <<>> ELSE <<F(s[1])>> \o SeqMap(F, Tail(s))

RECURSIVE SeqFilter(_, _)
SeqFilter(P(_), s) ==
    IF s = <<>> THEN <<>>
    ELSE (IF P(s[1]) THEN <<s[1]>> ELSE <<>>) \o SeqFilter(P, Tail(s))

SeqsUpTo(S, k) == UNION {[1..i -> S] : i \in 0..k}

-----------------------------------------------------------------------------
(* Timestamps.  message.sent_at.isoformat() is a string of calendar        *)
(* fields; datetime.fromisoformat turns it back into a point in time, here *)
(* the seconds since the start of the month.                               *)

Iso(d, h, m) == [day |-> d, hour |-> h, minute |-> m]

FromIsoformat(ts) == ((ts.day * 24 + ts.hour) * 60 + ts.minute) * 60

T0 == Iso(1, 22, 0)
T0plus30m == Iso(1, 22, 30)
T0plus2h == Iso(2, 0, 0)

-----------------------------------------------------------------------------
(* Tables.  pd.DataFrame(list of dicts) has the dicts' keys as columns;    *)
(* built from an empty list it has no columns at all.                      *)

SwipeColumns == {"timestamp", "direction", "time_of_day", "day_of_week"}

MatchColumns == {"match_id", "person_id", "name", "messages", "created_at",
                 "is_super_like", "is_boost_match", "is_fast_match",
                 "message_count", "last_message_time"}

DataFrame(rows, keys) ==
    [columns |-> IF rows = <<>> THEN {} ELSE keys, rows |-> rows]

\* An empty table that kept its columns (pd.DataFrame(columns=...), or a
\* filter that selected nothing).
EmptyFrame(keys) == [columns |-> keys, rows |-> <<>>]

TimesOfDay == <<"morning", "afternoon", "evening", "night">>

DaysOfWeek == <<"Monday", "Tuesday", "Wednesday", "Thursday",
                "Friday", "Saturday", "Sunday">>

Swipe(dir, tod, day) ==
    [direction |-> dir, time_of_day |-> tod, day_of_week |-> day]

Msg(who, len, at) == [sender |-> who, body |-> len, sent_at |-> at]

\* The message lists the input matches carry (body is the text's length).
MsgLists ==
    { <<>>,
      <<Msg("self", 5, T0)>>,
      <<Msg("self", 5, T0), Msg("other", 3, T0plus2h)>>,
      <<Msg("other", 2, T0), Msg("self", 8, T0plus30m)>>,
      <<Msg("self", 4, T0), Msg("other", 6, T0plus30m), Msg("self", 2, T0plus2h)>> }

\* One entry of TinderClient.get_match_history's list.
RawMatch(msgs, super) ==
    [messages |-> msgs,
     is_super_like |-> super,
     message_count |-> Len(msgs),
     last_message_time |-> IF msgs # <<>> THEN msgs[Len(msgs)].sent_at
                           ELSE Iso(0, 0, 0),
     has_last_message_time |-> msgs # <<>>]

RawMatches ==
    {RawMatch(l, FALSE) : l \in MsgLists}
        \cup {RawMatch(l, TRUE) : l \in {<<>>, <<Msg("self", 5, T0), Msg("other", 3, T0plus2h)>>}}

-----------------------------------------------------------------------------
(* utils/analytics.py: DatingMetricsCalculator.                            *)

\* The names bound in the module's namespace by its imports.
AnalyticsNames == {"pd", "np", "Dict", "List"}

Ok(v) == [status |-> "ok", value |-> v]

Raise(e) == [status |-> e, value |-> <<>>]

EmptyMap == <<>>

IsRight(r) == r.direction = "right"

IsLeft(r) == r.direction = "left"

RightSwipes(rows) == SeqFilter(IsRight, rows)

MessageCountOf(m) == Num(m.message_count)

ReplyFlag(m) == IF m.message_count > 1 THEN Num(1) ELSE Num(0)

SuperLikeOf(m) == IF m.is_super_like THEN Num(1) ELSE Num(0)

calculate_basic_metrics(sw, ma) ==
    LET nS == Len(sw.rows)
        nM == Len(ma.rows)
        nR == Len(RightSwipes(sw.rows))
    IN  \* match_rate: the condition len(swipes) > 0 is evaluated first
        IF nS > 0 /\ "direction" \notin sw.columns THEN Raise("KeyError")
        ELSE IF nS > 0 /\ nR = 0 THEN Raise("ZeroDivisionError")
        \* reply_rate
        ELSE IF nM > 0 /\ "message_count" \notin ma.columns THEN Raise("KeyError")
        \* the returned dict: right_swipes indexes the direction column
        ELSE IF "direction" \notin sw.columns THEN Raise("KeyError")
        ELSE IF nM > 0 /\ "is_super_like" \notin ma.columns THEN Raise("KeyError")
        ELSE Ok([total_swipes |-> Num(nS),
                 right_swipes |-> Num(nR),
                 left_swipes |-> Num(Len(SeqFilter(IsLeft, sw.rows))),
                 total_matches |-> Num(nM),
                 match_rate |-> IF nS > 0 THEN Rat(nM, nR) ELSE Num(0),
                 average_reply_rate |->
                     IF nM > 0 THEN Mean(SeqMap(ReplyFlag, ma.rows)) ELSE Num(0),
                 average_messages_per_match |->
                     IF nM > 0 THEN Mean(SeqMap(MessageCountOf, ma.rows)) ELSE Num(0),
                 super_like_rate |->
                     IF nM > 0 THEN Mean(SeqMap(SuperLikeOf, ma.rows)) ELSE Num(0)])

SwipesKey == [morning |-> "morning_swipes", afternoon |-> "afternoon_swipes",
              evening |-> "evening_swipes", night |-> "night_swipes",
              Monday |-> "Monday_swipes", Tuesday |-> "Tuesday_swipes",
              Wednesday |-> "Wednesday_swipes", Thursday |-> "Thursday_swipes",
              Friday |-> "Friday_swipes", Saturday |-> "Saturday_swipes",
              Sunday |-> "Sunday_swipes"]

MatchRateKey == [morning |-> "morning_match_rate", afternoon |-> "afternoon_match_rate",
                 evening |-> "evening_match_rate", night |-> "night_match_rate",
                 Monday |-> "Monday_match_rate", Tuesday |-> "Tuesday_match_rate",
                 Wednesday |-> "Wednesday_match_rate", Thursday |-> "Thursday_match_rate",
                 Friday |-> "Friday_match_rate", Saturday |-> "Saturday_match_rate",
                 Sunday |-> "Sunday_match_rate"]

Range(s) == {s[i] : i \in DOMAIN s}

\* The rows of one bucket: self.swipes[self.swipes[col] == bucket].
BucketRows(rows, bucket) ==
    LET col == IF bucket \in Range(TimesOfDay) THEN "time_of_day" ELSE "day_of_week"
        InBucket(r) == r[col] = bucket
    IN  SeqFilter(InBucket, rows)

\* Mutant: every bucket is emitted, the empty ones zero-filled.
TimeBuckets_zero_filled(sw, ma) ==
    LET buckets == Range(TimesOfDay) \cup Range(DaysOfWeek)
        keys == {SwipesKey[b] : b \in buckets} \cup {MatchRateKey[b] : b \in buckets}
        BucketOf(k) == CHOOSE b \in buckets : k \in {SwipesKey[b], MatchRateKey[b]}
        ValueOf(k) ==
            LET sub == BucketRows(sw.rows, BucketOf(k))
                nR == Len(RightSwipes(sub))
            IN  IF k = SwipesKey[BucketOf(k)] THEN Num(Len(sub))
                ELSE IF nR > 0 THEN Rat(Len(ma.rows), nR) ELSE Num(0)
    IN  [k \in keys |-> ValueOf(k)]

\* Mutant: a bucket's swipe count is the count of its right swipes.
TimeBuckets_counting_right(sw, ma) ==
    LET buckets == Range(TimesOfDay) \cup Range(DaysOfWeek)
        emitted == {b \in buckets : Len(BucketRows(sw.rows, b)) > 0}
        keys == {SwipesKey[b] : b \in emitted} \cup {MatchRateKey[b] : b \in emitted}
        BucketOf(k) == CHOOSE b \in emitted : k \in {SwipesKey[b], MatchRateKey[b]}
        ValueOf(k) ==
            LET sub == BucketRows(sw.rows, BucketOf(k))
                nR == Len(RightSwipes(sub))
            IN  IF k = SwipesKey[BucketOf(k)] THEN Num(nR)
                ELSE IF nR > 0 THEN Rat(Len(ma.rows), nR) ELSE Num(0)
    IN  [k \in keys |-> ValueOf(k)]

\* The two loops of calculate_time_based_metrics, after its guard.
TimeBuckets(sw, ma) ==
    LET buckets == Range(TimesOfDay) \cup Range(DaysOfWeek)
        emitted == {b \in buckets : Len(BucketRows(sw.rows, b)) > 0}
        keys == {SwipesKey[b] : b \in emitted} \cup {MatchRateKey[b] : b \in emitted}
        BucketOf(k) == CHOOSE b \in emitted : k \in {SwipesKey[b], MatchRateKey[b]}
        ValueOf(k) ==
            LET sub == BucketRows(sw.rows, BucketOf(k))
                nR == Len(RightSwipes(sub))
            IN  IF k = SwipesKey[BucketOf(k)] THEN Num(Len(sub))
                ELSE IF nR > 0 THEN Rat(Len(ma.rows), nR) ELSE Num(0)
    IN  [k \in keys |-> ValueOf(k)]

\* Mutant: the empty-table guard is missing.
calculate_time_based_metrics_unguarded(sw, ma) ==
    IF {"time_of_day", "day_of_week", "direction"} \subseteq sw.columns
    THEN Ok(TimeBuckets(sw, ma))
    ELSE Raise("KeyError")

calculate_time_based_metrics(sw, ma) ==
    IF Len(sw.rows) = 0 THEN Ok(EmptyMap)
    ELSE IF {"time_of_day", "day_of_week", "direction"} \subseteq sw.columns
         THEN Ok(TimeBuckets(sw, ma))
         ELSE Raise("KeyError")

HasReply(m) == Len(m.messages) > 1

\* (fromisoformat(second) - fromisoformat(first)).total_seconds() / 3600
ResponseTimeHours(msgs) ==
    Rat(FromIsoformat(msgs[2].sent_at) - FromIsoformat(msgs[1].sent_at), 3600)

ResponseTimeOf(m) == ResponseTimeHours(m.messages)

RECURSIVE Flatten(_)
Flatten(ss) == IF ss = <<>> THEN <<>> ELSE ss[1] \o Flatten(Tail(ss))

MessagesOf(m) == m.messages

BodyLength(msg) == Num(msg.body)

_calculate_avg_message_length(ma) ==
    LET lengths == SeqMap(BodyLength, Flatten(SeqMap(MessagesOf, ma.rows)))
    IN  IF lengths # <<>> THEN Mean(lengths) ELSE Num(0)

InitiatorFlag(m) ==
    IF m.messages # <<>> /\ m.messages[1].sender = "self" THEN Num(1) ELSE Num(0)

calculate_conversation_metrics(ma) ==
    LET replied == SeqFilter(HasReply, ma.rows)
        response_times == SeqMap(ResponseTimeOf, replied)
    IN  IF Len(ma.rows) = 0 THEN Ok(EmptyMap)
        ELSE IF "messages" \notin ma.columns THEN Raise("KeyError")
        \* the loop body names datetime at the first match with two messages
        ELSE IF replied # <<>> /\ "datetime" \notin AnalyticsNames
             THEN Raise("NameError")
        ELSE IF "message_count" \notin ma.columns THEN Raise("KeyError")
        ELSE Ok([average_response_time_hours |->
                     IF response_times # <<>> THEN Mean(response_times) ELSE Num(0),
                 median_response_time_hours |->
                     IF response_times # <<>> THEN Median(response_times) ELSE Num(0),
                 message_length_chars |-> _calculate_avg_message_length(ma),
                 messages_per_match |-> Mean(SeqMap(MessageCountOf, ma.rows)),
                 initiator_rate |-> Mean(SeqMap(InitiatorFlag, ma.rows))])

\* The swipe rows and tables the calculator is handed.
SwipeRows ==
    {Swipe(d, t, "Monday") : d \in {"left", "right"}, t \in {"morning", "evening"}}
        \cup {Swipe("right", "afternoon", "Tuesday")}

SwipeTables ==
    {DataFrame(l, SwipeColumns) : l \in SeqsUpTo(SwipeRows, MaxSwipes)}
        \cup {EmptyFrame(SwipeColumns)}

MatchTables ==
    {DataFrame(l, MatchColumns) : l \in SeqsUpTo(RawMatches, MaxMatches)}
        \cup {EmptyFrame(MatchColumns)}

NoCall == [op |-> "none", status |-> "none", value |-> <<>>]

Call(op, r) == [op |-> op, status |-> r.status, value |-> r.value]

InitMetrics ==
    /\ swipes \in SwipeTables
    /\ matches \in MatchTables
    /\ mres = NoCall

CalculateBasicMetrics ==
    /\ mres' = Call("calculate_basic_metrics", calculate_basic_metrics(swipes, matches))
    /\ UNCHANGED <<swipes, matches>>
    /\ UNCHANGED OutsideMetrics

CalculateTimeBasedMetrics ==
    /\ mres' = Call("calculate_time_based_metrics",
                    calculate_time_based_metrics(swipes, matches))
    /\ UNCHANGED <<swipes, matches>>
    /\ UNCHANGED OutsideMetrics

CalculateConversationMetrics ==
    /\ mres' = Call("calculate_conversation_metrics",
                    calculate_conversation_metrics(matches))
    /\ UNCHANGED <<swipes, matches>>
    /\ UNCHANGED OutsideMetrics

NextMetrics ==
    \/ CalculateBasicMetrics
    \/ CalculateTimeBasedMetrics
    \/ CalculateConversationMetrics

-----------------------------------------------------------------------------
(* core/monte_carlo.py: DatingMonteCarlo.                                  *)

SimsPerStrategy == 100

\* Python values of a trial row: numpy ints from the draws, bools from `not`.
PInt(k) == [t |-> "int", v |-> k]

PBool(b) == [t |-> "bool", v |-> IF b THEN 1 ELSE 0]

Truthy(x) == x.v # 0

\* a and b: a when a is falsy, else b.
PyAnd(a, b) == IF Truthy(a) THEN b ELSE a

PyNot(a) == PBool(~Truthy(a))

\* min(a, b) of two floats: b only when b < a.
PyMin(a, b) == IF RatLt(b, a) THEN b ELSE a

\* A row of the historical data; ghosted is NaN where there was no date.
HistRow(rep, dat, gho) == [replied |-> rep, dated |-> dat, ghosted |-> gho]

HistRows == {HistRow(FALSE, 0, NaN), HistRow(TRUE, 0, NaN),
             HistRow(TRUE, 1, Num(0)), HistRow(TRUE, 1, Num(1))}

\* The dated column is boolean, or the 0/1 integers of np.random.binomial.
HistTables == {[rows |-> l, dated_dtype |-> t] :
                   l \in SeqsUpTo(HistRows, MaxHistory), t \in {"bool", "int64"}}

RepliedRow(h) == h.replied

DatedRow(h) == h.dated = 1

GhostKnown(h) == ~IsNaN(h.ghosted)

RepliedOf(h) == IF h.replied THEN Num(1) ELSE Num(0)

DatedOf(h) == Num(h.dated)

GhostedOf(h) == h.ghosted

\* self.data['replied'].mean()
ReplyProb(data) == Mean(SeqMap(RepliedOf, data.rows))

\* self.data[self.data['replied']]['dated'].mean()
DateProb(data) == Ok(Mean(SeqMap(DatedOf, SeqFilter(RepliedRow, data.rows))))

\* self.data[self.data['dated']]['ghosted'].mean(): an integer column used as
\* an indexer selects columns by label, and there are none named 0 or 1.
GhostProb(data) ==
    IF data.dated_dtype # "bool" THEN Raise("KeyError")
    ELSE Ok(Mean(SeqMap(GhostedOf,
                        SeqFilter(GhostKnown, SeqFilter(DatedRow, data.rows)))))

\* np.random.binomial(1, p): the possible draws; none when it raises
\* ValueError (p < 0, p > 1 or p is NaN).
Binomial(p) ==
    IF IsNaN(p) \/ RatLt(p, Num(0)) \/ RatLt(Num(1), p) THEN {}
    ELSE IF p = Num(0) THEN {0}
    ELSE IF p = Num(1) THEN {1}
    ELSE {0, 1}

\* Mutant: success forgets the ghost check (success = dated).
TrialRow_success_is_dated(r, d, g) ==
    LET replied == PInt(r)
        dated == PyAnd(replied, PInt(d))
        ghosted == PyAnd(dated, PInt(g))
    IN  [replied |-> replied, dated |-> dated, ghosted |-> ghosted,
         success |-> dated]

\* The row a trial appends, from its draws r, d, g (0 for a draw not made).
TrialRow(r, d, g) ==
    LET replied == PInt(r)
        dated == PyAnd(replied, PInt(d))
        ghosted == PyAnd(dated, PInt(g))
    IN  [replied |-> replied, dated |-> dated, ghosted |-> ghosted,
         success |-> PyAnd(dated, PyNot(ghosted))]

NoRow == <<>>

Outcome(e, row, k) == [err |-> e, row |-> row, draws |-> k]

\* ghosted = dated and binomial(1, <ghost probability>), dated truthy
GhostStage(r, d, pg) ==
    IF pg.status # "ok" THEN {Outcome(pg.status, NoRow, 2)}
    ELSE IF Binomial(pg.value) = {} THEN {Outcome("ValueError", NoRow, 3)}
    ELSE {Outcome("none", TrialRow(r, d, g), 3) : g \in Binomial(pg.value)}

\* dated = replied and binomial(1, <date probability>), replied truthy
DateStage(r, pd, pg) ==
    IF pd.status # "ok" THEN {Outcome(pd.status, NoRow, 1)}
    ELSE IF Binomial(pd.value) = {} THEN {Outcome("ValueError", NoRow, 2)}
    ELSE UNION {IF d = 0 THEN {Outcome("none", TrialRow(r, 0, 0), 2)}
                ELSE GhostStage(r, d, pg) : d \in Binomial(pd.value)}

\* One pass of the loop body: every way it can end.
Trial(pr, pd, pg) ==
    IF Binomial(pr) = {} THEN {Outcome("ValueError", NoRow, 1)}
    ELSE UNION {IF r = 0 THEN {Outcome("none", TrialRow(0, 0, 0), 1)}
                ELSE DateStage(r, pd, pg) : r \in Binomial(pr)}

Strategy(o, l, t) == [opener_type |-> o, length |-> l, time |-> t]

\* The list main.py compares, and a few others ("none": key absent).
MainStrategies == <<Strategy("question", "medium", "evening"),
                    Strategy("humor", "short", "night"),
                    Strategy("compliment", "long", "afternoon")>>

StrategyLists == {<<>>, MainStrategies,
                  <<Strategy("humor", "medium", "none")>>,
                  <<Strategy("none", "none", "none")>>}

\* The adjusted reply probability of a strategy, before the cap.
StrategyReplyProb(base_reply, strategy) ==
    LET p == IF strategy.opener_type = "question" THEN RatMul(base_reply, Rat(12, 10))
             ELSE IF strategy.opener_type = "humor" THEN RatMul(base_reply, Rat(115, 100))
             ELSE base_reply
    IN  IF strategy.length = "medium" THEN RatMul(p, Rat(11, 10)) ELSE p

\* Mutant: the cap is missing.
CappedProb_uncapped(p) == p

\* min(reply_prob, 0.99)
CappedProb(p) == PyMin(p, Rat(99, 100))

StrategyRow(row) == [reply_rate |-> row.replied, date_rate |-> row.dated,
                     ghost_rate |-> row.ghosted, success_rate |-> row.success]

NoProbs == [reply |-> NaN, date |-> NaN, ghost |-> NaN]

NoResults == [set |-> FALSE, rows |-> <<>>]

InitSim ==
    /\ simData \in HistTables
    /\ simPc = "idle"
    /\ simN = 0
    /\ simProbs = NoProbs
    /\ results = <<>>
    /\ simDraws = 0
    /\ strategies = <<>>
    /\ sIdx = 0
    /\ reply_prob = NaN
    /\ usedProb = NaN
    /\ stratCount = 0
    /\ stratLast = <<>>
    /\ simErr = "none"
    /\ simulation_results = NoResults

SimRaise(e) ==
    /\ simPc' = "raised"
    /\ simErr' = e

\* simulate_conversation_outcomes(n): the three probabilities, before the loop.
SimulateBegin ==
    /\ simPc = "idle"
    /\ \E n \in 0..MaxSimulations :
        LET pd == DateProb(simData)
            pg == GhostProb(simData)
        IN  IF pg.status # "ok"
            THEN /\ SimRaise(pg.status)
                 /\ UNCHANGED <<simN, simProbs>>
            ELSE /\ simPc' = "simulating"
                 /\ simN' = n
                 /\ simProbs' = [reply |-> ReplyProb(simData), date |-> pd.value,
                                 ghost |-> pg.value]
                 /\ UNCHANGED simErr
    /\ results' = <<>>
    /\ UNCHANGED <<simData, simDraws, strategies, sIdx, reply_prob, usedProb,
                   stratCount, stratLast, simulation_results>>
    /\ UNCHANGED OutsideSim

SimulateTrial ==
    /\ simPc = "simulating"
    /\ Len(results) < simN
    /\ \E o \in Trial(simProbs.reply, Ok(simProbs.date), Ok(simProbs.ghost)) :
        /\ simDraws' = o.draws
        /\ IF o.err = "none"
           THEN /\ results' = Append(results, o.row)
                /\ UNCHANGED <<simPc, simErr>>
           ELSE /\ SimRaise(o.err)
                /\ UNCHANGED results
    /\ UNCHANGED <<simData, simN, simProbs, strategies, sIdx, reply_prob, usedProb,
                   stratCount, stratLast, simulation_results>>
    /\ UNCHANGED OutsideSim

SimulateReturn ==
    /\ simPc = "simulating"
    /\ Len(results) = simN
    /\ simulation_results' = [set |-> TRUE, rows |-> results]
    /\ simPc' = "returned"
    /\ UNCHANGED <<simData, simN, simProbs, results, simDraws, strategies, sIdx,
                   reply_prob, usedProb, stratCount, stratLast, simErr>>
    /\ UNCHANGED OutsideSim

\* optimize_message_strategy(strategies)
OptimizeBegin ==
    /\ simPc = "idle"
    /\ \E ss \in StrategyLists : strategies' = ss
    /\ sIdx' = 1
    /\ simPc' = "next_strategy"
    /\ UNCHANGED <<simData, simN, simProbs, results, simDraws, reply_prob, usedProb,
                   stratCount, stratLast, simErr, simulation_results>>
    /\ UNCHANGED OutsideSim

StrategyBegin ==
    /\ simPc = "next_strategy"
    /\ sIdx <= Len(strategies)
    /\ reply_prob' = StrategyReplyProb(ReplyProb(simData), strategies[sIdx])
    /\ stratCount' = 0
    /\ stratLast' = <<>>
    /\ simPc' = "strategy_trials"
    /\ UNCHANGED <<simData, simN, simProbs, results, simDraws, strategies, sIdx,
                   usedProb, simErr, simulation_results>>
    /\ UNCHANGED OutsideSim

StrategyTrial ==
    /\ simPc = "strategy_trials"
    /\ stratCount < SimsPerStrategy
    /\ usedProb' = CappedProb(reply_prob)
    /\ \E o \in Trial(CappedProb(reply_prob), DateProb(simData), GhostProb(simData)) :
        /\ simDraws' = o.draws
        /\ IF o.err = "none"
           THEN /\ stratLast' = <<StrategyRow(o.row)>>
                /\ stratCount' = stratCount + 1
                /\ UNCHANGED <<simPc, simErr>>
           ELSE /\ SimRaise(o.err)
                /\ UNCHANGED <<stratLast, stratCount>>
    /\ UNCHANGED <<simData, simN, simProbs, results, strategies, sIdx, reply_prob,
                   simulation_results>>
    /\ UNCHANGED OutsideSim

\* strategy_results[str(strategy)] = {...}; on to the next strategy
StrategyAggregate ==
    /\ simPc = "strategy_trials"
    /\ stratCount = SimsPerStrategy
    /\ sIdx' = sIdx + 1
    /\ simPc' = "next_strategy"
    /\ UNCHANGED <<simData, simN, simProbs, results, simDraws, strategies, reply_prob,
                   usedProb, stratCount, stratLast, simErr, simulation_results>>
    /\ UNCHANGED OutsideSim

OptimizeReturn ==
    /\ simPc = "next_strategy"
    /\ sIdx > Len(strategies)
    /\ simPc' = "returned"
    /\ UNCHANGED <<simData, simN, simProbs, results, simDraws, strategies, sIdx,
                   reply_prob, usedProb, stratCount, stratLast, simErr,
                   simulation_results>>
    /\ UNCHANGED OutsideSim

NextSim ==
    \/ SimulateBegin
    \/ SimulateTrial
    \/ SimulateReturn
    \/ OptimizeBegin
    \/ StrategyBegin
    \/ StrategyTrial
    \/ StrategyAggregate
    \/ OptimizeReturn

\* A simulator on which no method has been called.
IdleSim ==
    /\ simData = [rows |-> <<>>, dated_dtype |-> "bool"]
    /\ simPc = "idle"
    /\ simN = 0
    /\ simProbs = NoProbs
    /\ results = <<>>
    /\ simDraws = 0
    /\ strategies = <<>>
    /\ sIdx = 0
    /\ reply_prob = NaN
    /\ usedProb = NaN
    /\ stratCount = 0
    /\ stratLast = <<>>
    /\ simErr = "none"
    /\ simulation_results = NoResults

\* A calculator with no tables and no call made.
IdleMetrics ==
    /\ swipes = DataFrame(<<>>, SwipeColumns)
    /\ matches = DataFrame(<<>>, MatchColumns)
    /\ mres = NoCall

-----------------------------------------------------------------------------
(* core/alpha_model.py: AlphaSignalModel.                                  *)

TextFeatures == {"bio", "message_text"}

NumericFeatures == {"age", "distance_km", "common_connections"}

CategoricalFeatures == {"has_job", "has_education", "spotify_connected"}

Features == TextFeatures \cup NumericFeatures \cup CategoricalFeatures

\* The names build_model can see: the module's imports and its own locals.
\* numeric_features and categorical_features are locals of preprocess_data.
BuildModelNames ==
    {"pd", "np", "RandomForestClassifier", "train_test_split", "TfidfVectorizer",
     "Pipeline", "ColumnTransformer", "StandardScaler", "OneHotEncoder",
     "Dict", "List", "Tuple", "self",
     "text_transformer", "numeric_transformer", "categorical_transformer",
     "preprocessor", "pipeline"}

St(status, data, model) == [status |-> status, data |-> data, model |-> model]

\* self.data['target'] = ...; X = self.data[<the eight features>]
preprocess_data(data, model) ==
    IF "date_rate" \notin data.columns THEN St("KeyError", data, model)
    ELSE LET d1 == [data EXCEPT !.columns = @ \cup {"target"}]
         IN  IF Features \subseteq d1.columns THEN St("ok", d1, model)
             ELSE St("KeyError", d1, model)

\* Mutant: the two feature lists resolve, so the pipeline is assigned.
build_model_assigning(data, model) == St("ok", data, "pipeline")

\* self.model is assigned on the last line but one, after the
\* ColumnTransformer that names numeric_features is built.
build_model(data, model) ==
    IF {"numeric_features", "categorical_features"} \subseteq BuildModelNames
    THEN St("ok", data, "pipeline")
    ELSE St("NameError", data, model)

\* train_test_split(X, y, test_size=0.2) needs a non-empty train set:
\* n - ceil(n / 5) >= 1.
SplitOk(n) == n - ((n + 4) \div 5) >= 1

\* fitOk: whether model.fit and model.score go through.
train_model(data, model, fitOk) ==
    LET pre == preprocess_data(data, model)
        built == build_model(pre.data, pre.model)
    IN  IF pre.status # "ok" THEN pre
        ELSE IF ~SplitOk(pre.data.n) THEN St("ValueError", pre.data, pre.model)
        ELSE IF built.status # "ok" THEN built
        ELSE IF ~fitOk THEN St("FitError", built.data, built.model)
        ELSE built

\* Mutant: the readiness guard is missing; None has no predict_proba.
predict_alpha_unguarded(model, new_profiles, scoreOk) ==
    IF model = "None" \/ ~scoreOk
    THEN [status |-> "AttributeError", profiles |-> new_profiles]
    ELSE [status |-> "ok",
          profiles |-> [new_profiles EXCEPT !.columns = @ \cup {"alpha_score"}]]

\* scoreOk: whether self.model.predict_proba goes through.
predict_alpha(model, new_profiles, scoreOk) ==
    IF model = "None"
    THEN [status |-> "ValueError: Model not trained", profiles |-> new_profiles]
    ELSE IF ~scoreOk THEN [status |-> "PredictError", profiles |-> new_profiles]
    ELSE [status |-> "ok",
          profiles |-> [new_profiles EXCEPT !.columns = @ \cup {"alpha_score"}]]

\* The training tables: all columns; no target source; the columns
\* main.py's train_alpha_model provides (no numeric features).
TrainingColumns ==
    {Features \cup {"date_rate"},
     Features,
     {"name", "messages"} \cup TextFeatures \cup CategoricalFeatures \cup {"date_rate"}}

ProfileTables == {[columns |-> c, n |-> 1] : c \in {Features, NumericFeatures, {}}}

InitAlpha ==
    /\ amData \in {[columns |-> c, n |-> k] : c \in TrainingColumns, k \in 0..MaxRows}
    /\ amModel = "None"
    /\ amTrainCalled = FALSE
    /\ profiles \in ProfileTables
    /\ amRes = [op |-> "none", status |-> "none"]
    /\ amCalls = {}

BuildModel ==
    /\ LET r == build_model(amData, amModel)
       IN  /\ amModel' = r.model
           /\ amRes' = [op |-> "build_model", status |-> r.status]
           /\ amCalls' = amCalls \cup {[op |-> "build_model", status |-> r.status]}
    /\ UNCHANGED <<amData, amTrainCalled, profiles>>
    /\ UNCHANGED OutsideAlpha

TrainModel ==
    /\ \E fitOk \in BOOLEAN :
        LET r == train_model(amData, amModel, fitOk)
        IN  /\ amData' = r.data
            /\ amModel' = r.model
            /\ amRes' = [op |-> "train_model", status |-> r.status]
            /\ amCalls' = amCalls \cup {[op |-> "train_model", status |-> r.status]}
    /\ amTrainCalled' = TRUE
    /\ UNCHANGED profiles
    /\ UNCHANGED OutsideAlpha

PredictAlpha ==
    /\ \E scoreOk \in BOOLEAN :
        LET r == predict_alpha(amModel, profiles, scoreOk)
        IN  /\ profiles' = r.profiles
            /\ amRes' = [op |-> "predict_alpha", status |-> r.status]
            /\ amCalls' = amCalls \cup {[op |-> "predict_alpha", status |-> r.status]}
    /\ UNCHANGED <<amData, amModel, amTrainCalled>>
    /\ UNCHANGED OutsideAlpha

NextAlpha ==
    \/ BuildModel
    \/ TrainModel
    \/ PredictAlpha

IdleAlpha ==
    /\ amData = [columns |-> {}, n |-> 0]
    /\ amModel = "None"
    /\ amTrainCalled = FALSE
    /\ profiles = [columns |-> {}, n |-> 0]
    /\ amRes = [op |-> "none", status |-> "none"]
    /\ amCalls = {}

-----------------------------------------------------------------------------
(* api/client.py: TinderClient.swipe_right and TinderClient.send_message.  *)

\* What a call on the session can raise, and the classes `except Exception`
\* catches.
CollaboratorErrors == {"RequestError", "PynderError"}

ExceptionClasses == CollaboratorErrors \cup {"StopIteration", "KeyError", "ValueError"}

SessionMatches == {"m1", "m2"}

MatchArgs == SessionMatches \cup {"m3"}

Done(ret, e, did, attempts) ==
    [returned |-> ret, propagated |-> e, acted |-> did, attempts |-> attempts]

\* Mutant: the handler retries the action once instead of giving up.
TryAction_retrying(lookup, action) ==
    IF lookup # "ok" THEN Done("False", "none", FALSE, 0)
    ELSE IF action # "ok" THEN Done("True", "none", TRUE, 2)
    ELSE Done("True", "none", TRUE, 1)

\* try: <lookup>; <action>; return True / except Exception: return False.
\* lookup and action are "ok" or the exception raised.
TryAction(lookup, action) ==
    IF lookup # "ok"
    THEN (IF lookup \in ExceptionClasses THEN Done("False", "none", FALSE, 0)
          ELSE Done("none", lookup, FALSE, 0))
    ELSE IF action # "ok"
    THEN (IF action \in ExceptionClasses THEN Done("False", "none", FALSE, 1)
          ELSE Done("none", action, FALSE, 1))
    ELSE Done("True", "none", TRUE, 1)

swipe_right(lookup, action) == TryAction(lookup, action)

\* next(m for m in self.session.matches() if m.id == match_id) raises
\* StopIteration when no match has the id.
send_message(match_id, lookup, action) ==
    TryAction(IF lookup = "ok" /\ match_id \notin SessionMatches
              THEN "StopIteration" ELSE lookup,
              action)

NoClientCall == [op |-> "none", arg |-> "none", lookup |-> "none", action |-> "none",
                 returned |-> "none", propagated |-> "none", acted |-> FALSE,
                 attempts |-> 0]

ClientCall(op, arg, lookup, action, r) ==
    [op |-> op, arg |-> arg, lookup |-> lookup, action |-> action,
     returned |-> r.returned, propagated |-> r.propagated, acted |-> r.acted,
     attempts |-> r.attempts]

InitClient ==
    /\ liked = {}
    /\ sent = <<>>
    /\ cRes = NoClientCall

SwipeRight ==
    /\ \E user_id \in 1..MaxUsers, lookup \in {"ok"} \cup CollaboratorErrors,
          action \in {"ok"} \cup CollaboratorErrors :
        LET r == swipe_right(lookup, action)
        IN  /\ liked' = IF r.acted THEN liked \cup {user_id} ELSE liked
            /\ cRes' = ClientCall("swipe_right", user_id, lookup, action, r)
    /\ UNCHANGED sent
    /\ UNCHANGED OutsideClient

SendMessage ==
    /\ Len(sent) < MaxSent
    /\ \E match_id \in MatchArgs, lookup \in {"ok"} \cup CollaboratorErrors,
          action \in {"ok"} \cup CollaboratorErrors :
        LET r == send_message(match_id, lookup, action)
        IN  /\ sent' = IF r.acted THEN Append(sent, match_id) ELSE sent
            /\ cRes' = ClientCall("send_message", match_id, lookup, action, r)
    /\ UNCHANGED liked
    /\ UNCHANGED OutsideClient

NextClient ==
    \/ SwipeRight
    \/ SendMessage

IdleClient == InitClient

-----------------------------------------------------------------------------
(* main.py: SwipeAlpha.                                                    *)

\* Mutant: a match without a reply gets 0 hours instead of a missing value.
response_time_zero_default(x) == IF Len(x) > 1 THEN ResponseTimeHours(x) ELSE Num(0)

\* The lambda of collect_data's response_time column.
response_time(x) == IF Len(x) > 1 THEN ResponseTimeHours(x) ELSE NaN

\* The three derived columns, written over the row.
EnrichMatch(m) ==
    LET message_count == Len(m.messages)
    IN  [message_count |-> message_count,
         replied |-> message_count > 1,
         response_time |-> response_time(m.messages)] @@ m

\* matches_df after the `if len(matches_df) > 0` block.
EnrichedMatches(list) ==
    IF Len(list) > 0
    THEN [columns |-> MatchColumns \cup {"replied", "response_time"},
          rows |-> SeqMap(EnrichMatch, list)]
    ELSE DataFrame(list, MatchColumns)

\* session.matches(): each match has its own id.
WithIds(list) == [i \in 1..Len(list) |-> [match_id |-> i] @@ list[i]]

\* The matches the session can hold (super likes play no part here).
SessionHistory == {RawMatch(l, FALSE) : l \in MsgLists}

NoData == [set |-> FALSE, users |-> 0, matches |-> DataFrame(<<>>, MatchColumns)]

\* self.alpha_model: None, or an AlphaSignalModel and its model field.
NoAlphaModel == [set |-> FALSE, model |-> "None"]

\* ValueError("No match data available. Run collect_data() first.")
NotReadyError == "ValueError: No match data available"

\* The five steps of run, in its order.
Steps == <<"authenticate", "collect_data", "optimize_portfolio",
           "train_alpha_model", "run_monte_carlo_simulations">>

Stages == {"optimize_portfolio", "train_alpha_model", "run_monte_carlo_simulations"}

\* What a step can raise that `except Exception` in run catches.
AppExceptionClasses ==
    ExceptionClasses \cup {"AttributeError", "TypeError", "NameError", "OSError",
                           "OptimizationError", "PlotError", "FitError",
                           NotReadyError}

\* Mutant: the guard of the three stages is missing.
NotReady_unguarded(data) == FALSE

\* not self.data or 'matches' not in self.data
NotReady(data) == ~data.set

\* Mutant: the stage works on the collected table itself.
AfterStage_in_place(data, df) ==
    IF data.set THEN [data EXCEPT !.matches.columns = df] ELSE data

\* self.data after a stage whose local table ended with the columns df:
\* the stage took a copy (self.data['matches'].copy()).
AfterStage(data, df) == data

StageOutcome(status, portfolio, alpha_model, df) ==
    [status |-> status, portfolio |-> portfolio, alpha_model |-> alpha_model,
     df |-> df]

\* The ways optimize_portfolio can end.  The optimizer's solver and the
\* plot are collaborators: either may raise.
optimize_portfolio(data, portfolio, alpha_model) ==
    IF NotReady(data) THEN {StageOutcome(NotReadyError, portfolio, alpha_model, {})}
    ELSE IF ~data.set THEN {StageOutcome("TypeError", portfolio, alpha_model, {})}
    ELSE LET cols == data.matches.columns
             df == cols \cup {"reply_rate", "date_rate", "message_length"}
         IN  IF ~({"replied", "messages"} \subseteq cols)
             THEN {StageOutcome("KeyError", portfolio, alpha_model, cols)}
             ELSE IF "response_time" \notin df
             THEN {StageOutcome("KeyError", portfolio, alpha_model, df)}
             ELSE {StageOutcome("OptimizationError", portfolio, alpha_model,
                                df \cup {"expected_return"}),
                   StageOutcome("ok", "portfolio", alpha_model,
                                df \cup {"expected_return"}),
                   StageOutcome("PlotError", "portfolio", alpha_model,
                                df \cup {"expected_return"})}

\* The ways train_alpha_model can end: self.alpha_model is assigned before
\* train_model runs on the local table.
train_alpha_model(data, portfolio, alpha_model) ==
    IF NotReady(data) THEN {StageOutcome(NotReadyError, portfolio, alpha_model, {})}
    ELSE IF ~data.set THEN {StageOutcome("TypeError", portfolio, alpha_model, {})}
    ELSE LET cols == data.matches.columns
             df == cols \cup TextFeatures \cup CategoricalFeatures \cup {"date_rate"}
             Trained(fitOk) ==
                 train_model([columns |-> df, n |-> Len(data.matches.rows)],
                             "None", fitOk)
         IN  IF ~({"name", "messages"} \subseteq cols)
             THEN {StageOutcome("KeyError", portfolio, alpha_model, cols)}
             ELSE {StageOutcome(Trained(fitOk).status, portfolio,
                                [set |-> TRUE, model |-> Trained(fitOk).model],
                                Trained(fitOk).data.columns) : fitOk \in BOOLEAN}

\* The ways run_monte_carlo_simulations can end: the local table's dated
\* column holds the integers of np.random.binomial.
run_monte_carlo_simulations(data, portfolio, alpha_model) ==
    IF NotReady(data) THEN {StageOutcome(NotReadyError, portfolio, alpha_model, {})}
    ELSE IF ~data.set THEN {StageOutcome("TypeError", portfolio, alpha_model, {})}
    ELSE LET cols == data.matches.columns
             df == cols \cup {"replied", "dated", "ghosted"}
             pg == GhostProb([rows |-> <<>>, dated_dtype |-> "int64"])
         IN  IF "message_count" \notin cols
             THEN {StageOutcome("KeyError", portfolio, alpha_model, cols)}
             ELSE IF pg.status # "ok"
             THEN {StageOutcome(pg.status, portfolio, alpha_model, df)}
             ELSE {StageOutcome(s, portfolio, alpha_model, df) : s \in {"ok", "ValueError"}}

NoRun == [banner |-> FALSE, caught |-> "none", propagated |-> "none"]

InitApp ==
    /\ appClient = "None"
    /\ history \in {WithIds(l) : l \in SeqsUpTo(SessionHistory, MaxMatches)}
    /\ appData = NoData
    /\ appRes = [op |-> "none", status |-> "none"]
    /\ appPortfolio = "None"
    /\ appAlphaModel = NoAlphaModel
    /\ stageDf = {}
    /\ appCompleted = {}
    /\ runPc = "none"
    /\ runLog = <<>>
    /\ runOut = NoRun

\* A method returned: normally, or by raising.
Returned(op, status) ==
    /\ appRes' = [op |-> op, status |-> status]
    /\ appCompleted' = IF status = "ok" THEN appCompleted \cup {op} ELSE appCompleted

\* TinderClient(...) raises when the session cannot be opened.
DoAuthenticate ==
    /\ \E ok \in BOOLEAN :
        IF ok THEN /\ appClient' = "client"
                   /\ Returned("authenticate", "ok")
        ELSE /\ Returned("authenticate", "PynderError")
             /\ UNCHANGED appClient
    /\ UNCHANGED <<history, appData, appPortfolio, appAlphaModel, stageDf>>

\* fetchOk: the two client calls return (with no users, or as many as the
\* session has); saveOk: the CSV files get written.
DoCollectData ==
    /\ \E fetchOk \in BOOLEAN, saveOk \in BOOLEAN, nUsers \in {0, MaxUsers} :
        IF appClient = "None"
        THEN /\ Returned("collect_data", "AttributeError")
             /\ UNCHANGED appData
        ELSE IF ~fetchOk
        THEN /\ Returned("collect_data", "RequestError")
             /\ UNCHANGED appData
        ELSE /\ appData' = [set |-> TRUE, users |-> nUsers,
                            matches |-> EnrichedMatches(history)]
             /\ Returned("collect_data", IF saveOk THEN "ok" ELSE "OSError")
    /\ UNCHANGED <<appClient, history, appPortfolio, appAlphaModel, stageDf>>

\* One of the three stages, ending as o.
DoStage(op, o) ==
    /\ appData' = AfterStage(appData, o.df)
    /\ appPortfolio' = o.portfolio
    /\ appAlphaModel' = o.alpha_model
    /\ stageDf' = o.df
    /\ Returned(op, o.status)
    /\ UNCHANGED <<appClient, history>>

DoOptimizePortfolio ==
    \E o \in optimize_portfolio(appData, appPortfolio, appAlphaModel) :
        DoStage("optimize_portfolio", o)

DoTrainAlphaModel ==
    \E o \in train_alpha_model(appData, appPortfolio, appAlphaModel) :
        DoStage("train_alpha_model", o)

DoRunMonteCarloSimulations ==
    \E o \in run_monte_carlo_simulations(appData, appPortfolio, appAlphaModel) :
        DoStage("run_monte_carlo_simulations", o)

\* The methods called directly, outside run.
Authenticate ==
    /\ runPc = "none"
    /\ DoAuthenticate
    /\ UNCHANGED <<runPc, runLog, runOut>>
    /\ UNCHANGED OutsideApp

CollectData ==
    /\ runPc = "none"
    /\ DoCollectData
    /\ UNCHANGED <<runPc, runLog, runOut>>
    /\ UNCHANGED OutsideApp

OptimizePortfolio ==
    /\ runPc = "none"
    /\ DoOptimizePortfolio
    /\ UNCHANGED <<runPc, runLog, runOut>>
    /\ UNCHANGED OutsideApp

TrainAlphaModel ==
    /\ runPc = "none"
    /\ DoTrainAlphaModel
    /\ UNCHANGED <<runPc, runLog, runOut>>
    /\ UNCHANGED OutsideApp

RunMonteCarloSimulations ==
    /\ runPc = "none"
    /\ DoRunMonteCarloSimulations
    /\ UNCHANGED <<runPc, runLog, runOut>>
    /\ UNCHANGED OutsideApp

StepIndex(step) == CHOOSE i \in DOMAIN Steps : Steps[i] = step

\* Mutant: run goes on to the next step after a step raised.
RunAfter_continuing(step, status) ==
    IF StepIndex(step) < Len(Steps) THEN Steps[StepIndex(step) + 1] ELSE "returned"

\* Where run stands after a step ended with status: the next statement of
\* the try block, or past the try statement.
RunAfter(step, status) ==
    IF status = "ok" /\ StepIndex(step) < Len(Steps)
    THEN Steps[StepIndex(step) + 1]
    ELSE "returned"

\* The banner after the fifth step; `except Exception` for what a step raised.
RunOutcome(step, status) ==
    IF status = "ok"
    THEN [banner |-> StepIndex(step) = Len(Steps), caught |-> "none",
          propagated |-> "none"]
    ELSE IF status \in AppExceptionClasses
    THEN [banner |-> FALSE, caught |-> status, propagated |-> "none"]
    ELSE [banner |-> FALSE, caught |-> "none", propagated |-> status]

\* run(): the try block is entered.
RunBegin ==
    /\ runPc = "none"
    /\ runPc' = Steps[1]
    /\ UNCHANGED <<appClient, history, appData, appRes, appPortfolio, appAlphaModel,
                   stageDf, appCompleted, runLog, runOut>>
    /\ UNCHANGED OutsideApp

\* The step run stands at, and what run does when it has ended.
RunStep ==
    /\ runPc \in Range(Steps)
    /\ IF runPc = "authenticate" THEN DoAuthenticate
       ELSE IF runPc = "collect_data" THEN DoCollectData
       ELSE IF runPc = "optimize_portfolio" THEN DoOptimizePortfolio
       ELSE IF runPc = "train_alpha_model" THEN DoTrainAlphaModel
       ELSE DoRunMonteCarloSimulations
    /\ runLog' = Append(runLog, [step |-> runPc, status |-> appRes'.status])
    /\ runPc' = RunAfter(runPc, appRes'.status)
    /\ runOut' = RunOutcome(runPc, appRes'.status)
    /\ UNCHANGED OutsideApp

NextApp ==
    \/ Authenticate
    \/ CollectData
    \/ OptimizePortfolio
    \/ TrainAlphaModel
    \/ RunMonteCarloSimulations
    \/ RunBegin
    \/ RunStep

IdleApp ==
    /\ appClient = "None"
    /\ history = <<>>
    /\ appData = NoData
    /\ appRes = [op |-> "none", status |-> "none"]
    /\ appPortfolio = "None"
    /\ appAlphaModel = NoAlphaModel
    /\ stageDf = {}
    /\ appCompleted = {}
    /\ runPc = "none"
    /\ runLog = <<>>
    /\ runOut = NoRun

-----------------------------------------------------------------------------
(* core/options_pricing.py: DatingOptionsPricing.                          *)

\* pd.Timestamp.now() at the calls made: an hour to ten days after T0.
Nows == {Iso(1, 23, 0), Iso(8, 21, 0), Iso(8, 23, 0), Iso(12, 0, 0)}

\* (current_time - match_time).days: whole days, rounded down.
DaysSince(now, ts) == (FromIsoformat(now) - FromIsoformat(ts)) \div 86400

\* K = 0.3
StrikePrice == Rat(3, 10)

\* r = 0.05
DecayRate == Rat(5, 100)

\* sigma = 0.2
Volatility == Rat(2, 10)

\* match_data.get('reply_rate', 0.5)
InterestLevel(match_data) ==
    IF match_data.has_reply_rate THEN match_data.reply_rate ELSE Rat(1, 2)

\* Mutant: a stale match is priced with the smallest positive T.
TimeToExpiry_clamped(match_data, now) ==
    IF ~match_data.has_last_message_time THEN NaN
    ELSE LET d == DaysSince(now, match_data.last_message_time)
         IN  IF d >= 7 THEN Rat(1, 365) ELSE Rat(7 - d, 365)

\* T = (7 - days) / 365; pd.to_datetime(None) is NaT, whose days are NaN.
TimeToExpiry(match_data, now) ==
    IF ~match_data.has_last_message_time THEN NaN
    ELSE Rat(7 - DaysSince(now, match_data.last_message_time), 365)

\* The values a call price is taken from where numpy and scipy compute it.
CallPrices == {Num(0), Rat(1, 2), Rat(7, 10), NaN}

\* black_scholes' call_price.  np.sqrt(T) is NaN for T < 0 and NaN goes
\* through every later operation; otherwise the value comes out of np.log,
\* np.exp and norm.cdf, and is left open.
black_scholes(S, K, T, r, sigma) ==
    IF IsNaN(S) \/ IsNaN(T) \/ RatLt(T, Num(0)) THEN {NaN} ELSE CallPrices

\* Mutant: 'message' from 0.5 on.
Recommendation_at_least_half(call_price) ==
    IF RatLe(Rat(1, 2), call_price) THEN "message" ELSE "wait"

\* 'message' if option_values['call_price'] > 0.5 else 'wait'
Recommendation(call_price) ==
    IF RatLt(Rat(1, 2), call_price) THEN "message" ELSE "wait"

\* Every dict price_match_options can return for match_data at time now.
price_match_options(match_data, now) ==
    LET S == InterestLevel(match_data)
        T == TimeToExpiry(match_data, now)
    IN  {[S |-> S, T |-> T, call_price |-> c, recommendation |-> Recommendation(c)] :
            c \in black_scholes(S, StrikePrice, T, DecayRate, Volatility)}

PricingRow(ts, has, rate) ==
    [last_message_time |-> ts, has_last_message_time |-> has,
     reply_rate |-> rate, has_reply_rate |-> TRUE]

\* Rows of the table evaluate_portfolio is handed: one never messaged.
PricingRows == {PricingRow(Iso(0, 0, 0), FALSE, Num(0)),
                PricingRow(T0, TRUE, Rat(1, 2)),
                PricingRow(T0, TRUE, Num(1)),
                PricingRow(T0plus2h, TRUE, Num(0))}

PricingTables == {WithIds(l) : l \in SeqsUpTo(PricingRows, MaxMatches)}

\* The arguments of a direct price_match_options call.
MatchData == PricingRows \cup
    {[last_message_time |-> T0, has_last_message_time |-> TRUE,
      reply_rate |-> NaN, has_reply_rate |-> FALSE]}

\* match_data = {'reply_rate': row.get('reply_rate', 0.5), ...}
RowMatchData(row) ==
    [last_message_time |-> row.last_message_time,
     has_last_message_time |-> row.has_last_message_time,
     reply_rate |-> InterestLevel(row), has_reply_rate |-> TRUE]

\* Mutant: a match without a timestamp is priced as if messaged at T0.
EvaluateRow_defaulted(res, row, now) ==
    LET data == [RowMatchData(row) EXCEPT !.last_message_time =
                     IF row.has_last_message_time THEN @ ELSE T0,
                 !.has_last_message_time = TRUE]
    IN  {Append(res, [match_id |-> row.match_id] @@ p) :
              p \in price_match_options(data, now)}

\* One pass of evaluate_portfolio's loop body: the lists results can become.
EvaluateRow(res, row, now) ==
    IF ~row.has_last_message_time THEN {res}
    ELSE {Append(res, [match_id |-> row.match_id] @@ p) :
              p \in price_match_options(RowMatchData(row), now)}

NoPricing == [op |-> "none", has_last_message_time |-> FALSE,
              last_message_time |-> Iso(0, 0, 0), now |-> Iso(0, 0, 0),
              S |-> NaN, T |-> NaN, call_price |-> NaN, recommendation |-> "none"]

\* What the latest price_match_options call was given and returned.
PricingCall(op, data, now, p) ==
    [op |-> op, has_last_message_time |-> data.has_last_message_time,
     last_message_time |-> data.last_message_time, now |-> now,
     S |-> p.S, T |-> p.T, call_price |-> p.call_price,
     recommendation |-> p.recommendation]

InitPricing ==
    /\ prMatches \in PricingTables
    /\ prPc = "idle"
    /\ prIdx = 0
    /\ prResults = <<>>
    /\ prCall = NoPricing

PriceMatchOptions ==
    /\ prPc = "idle"
    /\ \E data \in MatchData, now \in Nows :
        \E p \in price_match_options(data, now) :
            prCall' = PricingCall("price_match_options", data, now, p)
    /\ UNCHANGED <<prMatches, prPc, prIdx, prResults>>
    /\ UNCHANGED OutsidePricing

\* evaluate_portfolio(matches): results = []
EvaluateBegin ==
    /\ prPc = "idle"
    /\ prPc' = "evaluating"
    /\ prIdx' = 1
    /\ prResults' = <<>>
    /\ UNCHANGED <<prMatches, prCall>>
    /\ UNCHANGED OutsidePricing

EvaluateNextRow ==
    /\ prPc = "evaluating"
    /\ prIdx <= Len(prMatches)
    /\ \E now \in Nows :
        \E res \in EvaluateRow(prResults, prMatches[prIdx], now) :
            /\ prResults' = res
            /\ prCall' = IF res = prResults THEN prCall
                         ELSE PricingCall("evaluate_portfolio",
                                          RowMatchData(prMatches[prIdx]), now,
                                          res[Len(res)])
    /\ prIdx' = prIdx + 1
    /\ UNCHANGED <<prMatches, prPc>>
    /\ UNCHANGED OutsidePricing

\* return pd.DataFrame(results)
EvaluateReturn ==
    /\ prPc = "evaluating"
    /\ prIdx > Len(prMatches)
    /\ prPc' = "returned"
    /\ UNCHANGED <<prMatches, prIdx, prResults, prCall>>
    /\ UNCHANGED OutsidePricing

NextPricing ==
    \/ PriceMatchOptions
    \/ EvaluateBegin
    \/ EvaluateNextRow
    \/ EvaluateReturn

IdlePricing ==
    /\ prMatches = <<>>
    /\ prPc = "idle"
    /\ prIdx = 0
    /\ prResults = <<>>
    /\ prCall = NoPricing

-----------------------------------------------------------------------------
(* api/data_fetcher.py: TinderDataFetcher._generate_swipe_history.         *)

SwipesPerDay == 20

\* datetime.now() - timedelta(days=days): the weekday (0 is Monday) and the
\* hour the generated history starts at.
Starts == {[weekday |-> w, hour |-> h] : w \in {0, 6}, h \in {0, 9, 23}}

\* (start + timedelta(hours=i)).isoformat()
GeneratedTimestamp(start, i) ==
    Iso((start.hour + i) \div 24, (start.hour + i) % 24, 0)

\* (start + timedelta(hours=i)).strftime('%A')
GeneratedWeekday(start, i) ==
    DaysOfWeek[((start.weekday + (start.hour + i) \div 24) % 7) + 1]

\* Mutant: the two directions are swapped.
GeneratedDirection_swapped(i) == IF i % 3 # 0 THEN "left" ELSE "right"

\* 'right' if i % 3 != 0 else 'left'
GeneratedDirection(i) == IF i % 3 # 0 THEN "right" ELSE "left"

\* The dict appended for index i.
GeneratedSwipe(start, i) ==
    [timestamp |-> GeneratedTimestamp(start, i),
     direction |-> GeneratedDirection(i),
     time_of_day |-> TimesOfDay[(i % 4) + 1],
     day_of_week |-> GeneratedWeekday(start, i)]

InitFetcher ==
    /\ genPc = "idle"
    /\ genDays = 0
    /\ genStart = [weekday |-> 0, hour |-> 0]
    /\ genI = 0
    /\ genHistory = <<>>

\* _generate_swipe_history(days): history = []
GenerateBegin ==
    /\ genPc = "idle"
    /\ \E days \in 0..MaxDays, start \in Starts :
        /\ genDays' = days
        /\ genStart' = start
    /\ genI' = 0
    /\ genHistory' = <<>>
    /\ genPc' = "generating"
    /\ UNCHANGED OutsideFetcher

\* for i in range(days * 20): history.append({...})
GenerateAppend ==
    /\ genPc = "generating"
    /\ genI < genDays * SwipesPerDay
    /\ genHistory' = Append(genHistory, GeneratedSwipe(genStart, genI))
    /\ genI' = genI + 1
    /\ UNCHANGED <<genPc, genDays, genStart>>
    /\ UNCHANGED OutsideFetcher

\* return history
GenerateReturn ==
    /\ genPc = "generating"
    /\ genI >= genDays * SwipesPerDay
    /\ genPc' = "returned"
    /\ UNCHANGED <<genDays, genStart, genI, genHistory>>
    /\ UNCHANGED OutsideFetcher

NextFetcher ==
    \/ GenerateBegin
    \/ GenerateAppend
    \/ GenerateReturn

IdleFetcher == InitFetcher

-----------------------------------------------------------------------------
(* Specifications: one per component, the others idle.                     *)

vars == <<metricsVars, simVars, alphaVars, clientVars, appVars, pricingVars,
         fetcherVars>>

MetricsStart == InitMetrics /\ IdleSim /\ IdleAlpha /\ IdleClient /\ IdleApp /\ IdlePricing
    /\ IdleFetcher

SimStart == InitSim /\ IdleMetrics /\ IdleAlpha /\ IdleClient /\ IdleApp /\ IdlePricing
    /\ IdleFetcher

AlphaStart == InitAlpha /\ IdleMetrics /\ IdleSim /\ IdleClient /\ IdleApp /\ IdlePricing
    /\ IdleFetcher

ClientStart == InitClient /\ IdleMetrics /\ IdleSim /\ IdleAlpha /\ IdleApp /\ IdlePricing
    /\ IdleFetcher

AppStart == InitApp /\ IdleMetrics /\ IdleSim /\ IdleAlpha /\ IdleClient /\ IdlePricing
    /\ IdleFetcher

PricingStart ==
    InitPricing /\ IdleMetrics /\ IdleSim /\ IdleAlpha /\ IdleClient /\ IdleApp
    /\ IdleFetcher

FetcherStart ==
    InitFetcher /\ IdleMetrics /\ IdleSim /\ IdleAlpha /\ IdleClient /\ IdleApp
    /\ IdlePricing

SpecMetrics == MetricsStart /\ [][NextMetrics]_vars

SpecSim == SimStart /\ [][NextSim]_vars

SpecAlpha == AlphaStart /\ [][NextAlpha]_vars

SpecClient == ClientStart /\ [][NextClient]_vars

SpecApp == AppStart /\ [][NextApp]_vars

SpecPricing == PricingStart /\ [][NextPricing]_vars

SpecFetcher == FetcherStart /\ [][NextFetcher]_vars

-----------------------------------------------------------------------------
(* Properties.                                                             *)

\* C1: for empty swipe and match tables calculate_basic_metrics returns,
\* without raising, the mapping of eight zeros.
C1_EmptyTablesGiveZeros ==
    (mres.op = "calculate_basic_metrics" /\ swipes.rows = <<>> /\ matches.rows = <<>>)
        => /\ mres.status = "ok"
           /\ mres.value = [total_swipes |-> Num(0), right_swipes |-> Num(0),
                            left_swipes |-> Num(0), total_matches |-> Num(0),
                            match_rate |-> Num(0), average_reply_rate |-> Num(0),
                            average_messages_per_match |-> Num(0),
                            super_like_rate |-> Num(0)]

\* The right swipes of the calculator's table, counted directly.
C2_RightCount == Cardinality({i \in DOMAIN swipes.rows : swipes.rows[i].direction = "right"})

\* C2: calculate_basic_metrics never raises on a zero denominator; match_rate
\* is matches / right swipes when there is a right swipe and 0 when there is
\* none, also for a non-empty table of left swipes only.
C2_MatchRateNeverDividesByZero ==
    mres.op = "calculate_basic_metrics"
        => /\ mres.status # "ZeroDivisionError"
           /\ mres.status = "ok"
                => mres.value.match_rate =
                       IF C2_RightCount > 0
                       THEN Rat(Len(matches.rows), C2_RightCount)
                       ELSE Num(0)

\* C3: calculate_time_based_metrics returns {} whenever the swipe table is
\* empty and calculate_conversation_metrics returns {} whenever the match
\* table is empty, without raising, whatever the other table holds.
C3_EmptyTableGivesEmptyMapping ==
    /\ (mres.op = "calculate_time_based_metrics" /\ Len(swipes.rows) = 0)
          => (mres.status = "ok" /\ DOMAIN mres.value = {})
    /\ (mres.op = "calculate_conversation_metrics" /\ Len(matches.rows) = 0)
          => (mres.status = "ok" /\ DOMAIN mres.value = {})

C3_Witness ==
    /\ mres.op = "calculate_time_based_metrics"
    /\ swipes.rows = <<>>
    /\ swipes.columns = {}
    /\ Len(matches.rows) = MaxMatches
    /\ mres.status = "ok"

C4_RowOk(replied, dated, ghosted, success) ==
    /\ (success.v # 0) <=> (dated.v # 0 /\ ghosted.v = 0)
    /\ (ghosted.v # 0) => (dated.v # 0)
    /\ (dated.v # 0) => (replied.v # 0)

\* C4: in every trial row the simulator produces, success holds exactly when
\* dated holds and ghosted does not, ghosted implies dated, and dated implies
\* replied.
C4_CausalChain ==
    /\ \A i \in DOMAIN results :
          C4_RowOk(results[i].replied, results[i].dated,
                   results[i].ghosted, results[i].success)
    /\ \A i \in DOMAIN simulation_results.rows :
          LET row == simulation_results.rows[i]
          IN  C4_RowOk(row.replied, row.dated, row.ghosted, row.success)
    /\ \A i \in DOMAIN stratLast :
          C4_RowOk(stratLast[i].reply_rate, stratLast[i].date_rate,
                   stratLast[i].ghost_rate, stratLast[i].success_rate)

C4_Witness ==
    /\ simPc = "simulating"
    /\ \E i \in DOMAIN results : results[i].success.v # 0
    /\ \E i \in DOMAIN results : results[i].ghosted.v # 0

\* C5: predict_alpha on a model on which train_model has not been called
\* fails with the not-ready ValueError and adds no alpha_score column.
C5_PredictBeforeTrainFails ==
    (~amTrainCalled /\ amRes.op = "predict_alpha")
        => /\ amRes.status = "ValueError: Model not trained"
           /\ "alpha_score" \notin profiles.columns

C5_Witness ==
    /\ ~amTrainCalled
    /\ amRes.op = "predict_alpha"
    /\ profiles.columns = Features

\* The historical mean reply rate, counted directly.
C6_Base ==
    Rat(Cardinality({i \in DOMAIN simData.rows : simData.rows[i].replied}),
        Len(simData.rows))

C6_Expected ==
    LET st == strategies[sIdx]
        fo == IF st.opener_type = "question" THEN Rat(120, 100)
              ELSE IF st.opener_type = "humor" THEN Rat(115, 100)
              ELSE Num(1)
        fl == IF st.length = "medium" THEN Rat(110, 100) ELSE Num(1)
        prod == RatMul(RatMul(C6_Base, fo), fl)
    IN  IF prod.n * 100 > 99 * prod.d THEN Rat(99, 100) ELSE prod

\* A reply draw of the current strategy has been made.
C6_Drawn ==
    /\ sIdx \in DOMAIN strategies
    /\ Len(simData.rows) > 0
    /\ (simPc = "strategy_trials" /\ stratCount > 0) \/ simPc = "raised"

\* C6: the probability of a strategy's reply draws is
\* min(base * f_opener * f_length, 0.99); base 0.5 with question and medium
\* gives 0.66; it never exceeds 0.99.
C6_AdjustedReplyProbability ==
    C6_Drawn
        => /\ usedProb = C6_Expected
           /\ usedProb.n * 100 <= 99 * usedProb.d
           /\ (C6_Base = Rat(1, 2) /\ strategies[sIdx].opener_type = "question"
                 /\ strategies[sIdx].length = "medium")
                => usedProb = Rat(66, 100)

C6_Witness ==
    /\ C6_Drawn
    /\ stratCount = SimsPerStrategy
    /\ C6_Base = Rat(1, 2)
    /\ strategies[sIdx].opener_type = "question"
    /\ strategies[sIdx].length = "medium"
    /\ usedProb = Rat(66, 100)

C7_Seconds(ts) == ts.day * 86400 + ts.hour * 3600 + ts.minute * 60

\* C7: after collect_data every ingested match is still there, in order, and
\* carries message_count, replied and response_time (hours between the first
\* two messages; missing, not zero, when there are fewer than two).
C7_DerivedFields ==
    appData.set
        => /\ Len(appData.matches.rows) = Len(history)
           /\ \A i \in DOMAIN history :
                LET row == appData.matches.rows[i]
                    msgs == history[i].messages
                IN  /\ row.match_id = history[i].match_id
                    /\ row.messages = msgs
                    /\ row.message_count = Len(msgs)
                    /\ row.replied = (Len(msgs) > 1)
                    /\ Len(msgs) >= 2
                         => /\ row.response_time.d # 0
                            /\ row.response_time.n * 3600 =
                                 (C7_Seconds(msgs[2].sent_at)
                                    - C7_Seconds(msgs[1].sent_at)) * row.response_time.d
                    /\ Len(msgs) < 2 => row.response_time = NaN

C7_Witness ==
    /\ appData.set
    /\ appRes.op = "collect_data"
    /\ \E i \in DOMAIN appData.matches.rows :
          /\ appData.matches.rows[i].messages = <<>>
          /\ appData.matches.rows[i].response_time = NaN
    /\ \E i \in DOMAIN appData.matches.rows :
          /\ Len(appData.matches.rows[i].messages) = 2
          /\ appData.matches.rows[i].response_time = Num(2)

C8_Answered(m) == Len(m.messages) >= 2

C8_Hours(m) ==
    Rat(C7_Seconds(m.messages[2].sent_at) - C7_Seconds(m.messages[1].sent_at), 3600)

\* The response times of the matches with two messages, in hours.
C8_Times == SeqMap(C8_Hours, SeqFilter(C8_Answered, matches.rows))

\* C8: for a non-empty match table average_response_time_hours is the mean
\* response time of the matches with at least two messages, 0 when there is
\* none; one match answered after two hours gives 2.0.
C8_AverageResponseTime ==
    (mres.op = "calculate_conversation_metrics" /\ Len(matches.rows) > 0)
        => /\ mres.status = "ok"
           /\ mres.value.average_response_time_hours =
                  IF C8_Times = <<>> THEN Num(0) ELSE Mean(C8_Times)

\* C9: swipe_right and send_message return True when lookup and action
\* succeed and False when either raises; the exception never reaches the
\* caller and the action is attempted at most once.
C9_BooleanFlag ==
    cRes.op # "none"
        => LET found == cRes.op = "swipe_right" \/ cRes.arg \in SessionMatches
               fine == cRes.lookup = "ok" /\ found /\ cRes.action = "ok"
           IN  /\ cRes.propagated = "none"
               /\ cRes.returned = IF fine THEN "True" ELSE "False"
               /\ cRes.attempts <= 1
               /\ cRes.acted = fine

C9_Witness ==
    /\ cRes.op = "send_message"
    /\ cRes.lookup = "ok"
    /\ cRes.arg \in SessionMatches
    /\ cRes.action = "RequestError"
    /\ cRes.returned = "False"
    /\ Len(sent) = 1

\* C11: for a non-empty swipe table calculate_time_based_metrics emits the
\* two keys of a bucket exactly when the bucket has a swipe row; the swipes
\* value is the bucket's row count and the match rate is the number of
\* matches over the bucket's right swipes, or 0 when it has none.
C11_InBucket(b) ==
    {i \in DOMAIN swipes.rows :
        swipes.rows[i].time_of_day = b \/ swipes.rows[i].day_of_week = b}

C11_RightInBucket(b) ==
    {i \in C11_InBucket(b) : swipes.rows[i].direction = "right"}

C11_BucketOk(b) ==
    LET n == Cardinality(C11_InBucket(b))
        nR == Cardinality(C11_RightInBucket(b))
    IN  /\ (SwipesKey[b] \in DOMAIN mres.value) <=> (n > 0)
        /\ (MatchRateKey[b] \in DOMAIN mres.value) <=> (n > 0)
        /\ n > 0 =>
            /\ mres.value[SwipesKey[b]] = Num(n)
            /\ mres.value[MatchRateKey[b]] =
                   IF nR > 0 THEN Rat(Len(matches.rows), nR) ELSE Num(0)

C11_SparseBuckets ==
    (mres.op = "calculate_time_based_metrics" /\ swipes.rows # <<>>)
        => /\ mres.status = "ok"
           /\ \A b \in Range(TimesOfDay) \cup Range(DaysOfWeek) : C11_BucketOk(b)

C11_Witness ==
    /\ mres.op = "calculate_time_based_metrics"
    /\ mres.status = "ok"
    /\ Len(swipes.rows) = 2
    /\ Len(matches.rows) = 1
    /\ "evening_swipes" \notin DOMAIN mres.value
    /\ "Tuesday_swipes" \in DOMAIN mres.value
    /\ "morning_match_rate" \in DOMAIN mres.value
    /\ mres.value["morning_match_rate"] = Num(0)
    /\ mres.value["afternoon_match_rate"] = Num(1)

\* C12: evaluate_portfolio appends exactly one priced row for every match
\* with a last_message_time, in input order and with its match_id, and no
\* row for a match without one.
C12_HasTimestamp(row) == row.has_last_message_time

C12_Done == IF prPc = "returned" THEN Len(prMatches) ELSE prIdx - 1

C12_Expected == SeqFilter(C12_HasTimestamp, SubSeq(prMatches, 1, C12_Done))

C12_OneRowPerTimestampedMatch ==
    prPc \in {"evaluating", "returned"}
        => /\ Len(prResults) = Len(C12_Expected)
           /\ \A i \in DOMAIN prResults :
                /\ prResults[i].match_id = C12_Expected[i].match_id
                /\ prResults[i].recommendation \in {"message", "wait"}

C12_Witness ==
    /\ prPc = "returned"
    /\ Len(prMatches) = 2
    /\ ~prMatches[1].has_last_message_time
    /\ prMatches[2].has_last_message_time
    /\ Len(prResults) = 1
    /\ prResults[1].match_id = 2

\* C13: price_match_options recommends 'message' exactly when the call
\* price is strictly greater than 0.5 and 'wait' otherwise, 0.5 and a
\* missing value included; it recommends nothing else.
C13_AboveHalf(c) == c.d # 0 /\ 2 * c.n > c.d

C13_RecommendationRule ==
    prCall.op # "none"
        => /\ prCall.recommendation \in {"message", "wait"}
           /\ (prCall.recommendation = "message") <=> C13_AboveHalf(prCall.call_price)

C13_Witness ==
    /\ prCall.op = "price_match_options"
    /\ prCall.call_price = Rat(1, 2)
    /\ prCall.recommendation = "wait"

\* C14: the time to expiry handed to black_scholes is (7 - d) / 365 for d
\* the whole days since the last message, unclamped: positive exactly when
\* d < 7, zero when d = 7 and negative when d > 7.
C14_Minutes(ts) == (ts.day * 24 + ts.hour) * 60 + ts.minute

C14_Elapsed == C14_Minutes(prCall.now) - C14_Minutes(prCall.last_message_time)

C14_Days == CHOOSE d \in -1..31 : d * 1440 <= C14_Elapsed /\ C14_Elapsed < (d + 1) * 1440

C14_UnclampedExpiry ==
    (prCall.op # "none" /\ prCall.has_last_message_time)
        => /\ prCall.T.d # 0
           /\ prCall.T.n * 365 = (7 - C14_Days) * prCall.T.d
           /\ (prCall.T.n > 0) <=> (C14_Days < 7)
           /\ (prCall.T.n = 0) <=> (C14_Days = 7)
           /\ (prCall.T.n < 0) <=> (C14_Days > 7)

C14_Witness ==
    /\ prCall.op = "evaluate_portfolio"
    /\ prCall.has_last_message_time
    /\ C14_Days = 10
    /\ prCall.T = Rat(-3, 365)
    /\ prCall.recommendation = "wait"

\* C15: simulate_conversation_outcomes(n) does not raise and returns a table
\* of exactly n trial rows; a trial makes the reply draw, the date draw only
\* if replied and the ghost draw only if dated: at most three draws.
C15_InSimulate == simPc # "idle" /\ sIdx = 0

C15_DrawsOk(row, k) ==
    /\ k \in 1..3
    /\ (k >= 2) <=> Truthy(row.replied)
    /\ (k = 3) <=> Truthy(row.dated)

C15_ReturnsNRows ==
    C15_InSimulate
        => /\ simPc # "raised"
           /\ Len(results) <= simN
           /\ simPc = "returned" => Len(simulation_results.rows) = simN
           /\ results # <<>> => C15_DrawsOk(results[Len(results)], simDraws)

\* C16 as stated: on an application on which collect_data has not completed,
\* each of the three stages fails with the not-ready error and leaves data,
\* portfolio and alpha_model unchanged.
C16_StageStep ==
    \/ runPc = "none" /\ runPc' = "none" /\ appRes'.op \in Stages
    \/ runPc \in Stages

C16_Refused ==
    /\ appRes'.op \in Stages
    /\ appRes'.status = NotReadyError
    /\ UNCHANGED <<appData, appPortfolio, appAlphaModel>>

C16_NotReadyBeforeCollectCompletes ==
    [][(C16_StageStep /\ "collect_data" \notin appCompleted) => C16_Refused]_vars

\* C16, amended: on an application whose data field has not been assigned
\* (collect_data was never called, or raised before its assignment of
\* self.data), each of the three stages fails with the not-ready error and
\* leaves data, portfolio and alpha_model unchanged.
C16_NotReadyWithoutData ==
    [][(C16_StageStep /\ ~appData.set) => C16_Refused]_vars

C16_Witness ==
    /\ appRes.op = "train_alpha_model"
    /\ appRes.status = NotReadyError
    /\ appClient = "client"
    /\ ~appData.set
    /\ appPortfolio = "None"
    /\ ~appAlphaModel.set

\* C18: whatever stages have run, the collected matches table has the rows
\* and the columns collect_data left, and the local table of a stage holds
\* no column that only another stage adds.
C18_Collected == MatchColumns \cup {"replied", "response_time"}

C18_Adds == [optimize_portfolio |->
                 {"reply_rate", "date_rate", "message_length", "expected_return"},
             train_alpha_model |->
                 {"bio", "message_text", "has_job", "has_education",
                  "spotify_connected", "date_rate", "target"},
             run_monte_carlo_simulations |-> {"dated", "ghosted"}]

C18_Added == UNION {C18_Adds[s] : s \in Stages}

C18_StagesWorkOnCopies ==
    /\ appData.set
        => /\ appData.matches.columns = IF history = <<>> THEN {} ELSE C18_Collected
           /\ Len(appData.matches.rows) = Len(history)
           /\ \A i \in DOMAIN appData.matches.rows :
                (DOMAIN appData.matches.rows[i]) \cap C18_Added = {}
    /\ appRes.op \in Stages
        => stageDf \cap (C18_Added \ C18_Adds[appRes.op]) = {}

C18_Witness ==
    /\ appData.set
    /\ appData.matches.rows # <<>>
    /\ appPortfolio = "portfolio"
    /\ appAlphaModel.set
    /\ appRes.op = "run_monte_carlo_simulations"
    /\ "dated" \in stageDf
    /\ "target" \notin stageDf

\* C19: run executes the five steps in their order, each at most once and
\* none after a step that raised; what a step raises is caught, not
\* propagated; the banner is emitted only when all five have succeeded.
C19_AllOk == \A i \in DOMAIN runLog : runLog[i].status = "ok"

C19_RunInOrder ==
    /\ Len(runLog) <= Len(Steps)
    /\ \A i \in DOMAIN runLog :
          /\ runLog[i].step = Steps[i]
          /\ i < Len(runLog) => runLog[i].status = "ok"
    /\ runPc \in Range(Steps) => (C19_AllOk /\ runPc = Steps[Len(runLog) + 1])
    /\ runOut.propagated = "none"
    /\ runOut.banner => (Len(runLog) = Len(Steps) /\ C19_AllOk)
    /\ (runPc = "returned" /\ ~C19_AllOk)
          => runOut.caught = runLog[Len(runLog)].status

C19_Witness ==
    /\ runPc = "returned"
    /\ Len(runLog) = 4
    /\ runLog[3].status = "ok"
    /\ runLog[4].status = "KeyError"
    /\ runOut.caught = "KeyError"
    /\ ~runOut.banner
    /\ appPortfolio = "portfolio"

\* C17: _generate_swipe_history(days), days >= 0, returns exactly 20 * days
\* records; record i (from 0) is 'left' exactly when i mod 3 = 0 and 'right'
\* otherwise, and its time_of_day is the (i mod 4)-th of morning, afternoon,
\* evening, night.
C17_Buckets == <<"morning", "afternoon", "evening", "night">>

C17_RecordOk(rec, i) ==
    /\ rec.direction \in {"left", "right"}
    /\ (rec.direction = "left") <=> (i % 3 = 0)
    /\ rec.time_of_day = C17_Buckets[(i % 4) + 1]

C17_GeneratedHistory ==
    /\ genPc = "returned" => Len(genHistory) = 20 * genDays
    /\ \A k \in DOMAIN genHistory : C17_RecordOk(genHistory[k], k - 1)

C17_Witness ==
    /\ genPc = "returned"
    /\ genDays = 2
    /\ Len(genHistory) = 40
    /\ genHistory[1].direction = "left"
    /\ genHistory[4].direction = "left"
    /\ genHistory[4].time_of_day = "night"
    /\ genHistory[40].day_of_week = "Tuesday"

\* C20: predict_alpha passes the readiness guard only if an earlier
\* train_model call returned successfully; after a bare build_model call,
\* or a train_model call that raised, the model is not ready and
\* predict_alpha raises the not-ready error.
C20_NotTrained == "ValueError: Model not trained"

C20_TrainedOk == [op |-> "train_model", status |-> "ok"] \in amCalls

C21_TimeKeys == {"morning_swipes", "afternoon_swipes", "evening_swipes",
                 "night_swipes"}

C21_DayKeys == {"Monday_swipes", "Tuesday_swipes", "Wednesday_swipes",
                "Thursday_swipes", "Friday_swipes", "Saturday_swipes",
                "Sunday_swipes"}

RECURSIVE C21_Sum(_)
C21_Sum(keys) ==
    IF keys = {} THEN 0
    ELSE LET k == CHOOSE x \in keys : TRUE
         IN  mres.value[k].n + C21_Sum(keys \ {k})

C21_WellFormed ==
    \A i \in DOMAIN swipes.rows :
        /\ swipes.rows[i].time_of_day \in {"morning", "afternoon", "evening", "night"}
        /\ swipes.rows[i].day_of_week \in
               {"Monday", "Tuesday", "Wednesday", "Thursday", "Friday",
                "Saturday", "Sunday"}

C21_CountsPartitionSwipes ==
    (mres.op = "calculate_time_based_metrics" /\ swipes.rows # <<>> /\ C21_WellFormed)
        => /\ mres.status = "ok"
           /\ C21_Sum(C21_TimeKeys \cap DOMAIN mres.value) = Len(swipes.rows)
           /\ C21_Sum(C21_DayKeys \cap DOMAIN mres.value) = Len(swipes.rows)
           /\ \A k \in (C21_TimeKeys \cup C21_DayKeys) \cap DOMAIN mres.value :
                 mres.value[k].d = 1 /\ mres.value[k].n >= 1

C21_Witness ==
    /\ mres.op = "calculate_time_based_metrics"
    /\ mres.status = "ok"
    /\ Len(swipes.rows) = 2
    /\ C21_TimeKeys \cap DOMAIN mres.value = {"morning_swipes", "afternoon_swipes"}
    /\ C21_DayKeys \cap DOMAIN mres.value = {"Monday_swipes", "Tuesday_swipes"}
    /\ mres.value["Monday_swipes"] = Num(1)

====
